---- MODULE Spec2Model ----
(***************************************************************************)
(* A model of wfc-rs: pattern extraction (pattern.rs), the constraints     *)
(* table (wfc.rs, Wfc::build_constraints), the grid table (table.rs) and   *)
(* the solver Wfc::generate with WfcI::observe and WfcI::propagate.        *)
(*                                                                         *)
(* A pattern is a record [id, size, pixels]; a colour is the number of its *)
(* red channel (test_utils::c).  A cell's domain is the set of the         *)
(* patterns its Vec holds: a Vec built from a HashSet holds each pattern   *)
(* once, and its order is the set's iteration order, which the program     *)
(* does not fix.                                                           *)
(***************************************************************************)
EXTENDS Integers, Sequences, FiniteSets, TLC

\* Bound: the output grids have at most MaxCells cells (width * height).
MaxCells == 4

\* Bound: the kernel sizes tried are 1..MaxSize.
MaxSize == 2

\* Bound: the exemplars that get_patterns is run on have at most MaxPixels pixels.
MaxPixels == 4

\* Bound: the tables that are called directly have at most MaxLen elements.
MaxLen == 9

---------------------------------------------------------------------------
(* direction.rs *)

Up == "Up"
Right == "Right"
Down == "Down"
Left == "Left"

\* Direction::all
all == <<Up, Right, Down, Left>>

\* Direction::opposite
opposite(d) ==
  CASE d = Up -> Down
    [] d = Down -> Up
    [] d = Right -> Left
    [] d = Left -> Right

\* Direction::add_pos
add_pos(d, pos) ==
  CASE d = Up -> <<pos[1] - 1, pos[2]>>
    [] d = Right -> <<pos[1], pos[2] + 1>>
    [] d = Down -> <<pos[1] + 1, pos[2]>>
    [] d = Left -> <<pos[1], pos[2] - 1>>

\* impl From<(i32, i32)> for Direction; any other displacement panics.
direction_from(value) ==
  CASE value = <<-1, 0>> -> Up
    [] value = <<0, 1>> -> Right
    [] value = <<1, 0>> -> Down
    [] value = <<0, -1>> -> Left
    [] OTHER -> "Invalid direction"

\* Direction::from_neighbors
from_neighbors(pos, npos) ==
  direction_from(<<npos[1] - pos[1], npos[2] - pos[2]>>)

\* A changed conversion: the position of the direction in the enum's declaration
\* (Up, Down, Right, Left), as a cast would give it.
direction_as_declared(d) ==
  CASE d = Up -> 0
    [] d = Down -> 1
    [] d = Right -> 2
    [] d = Left -> 3

\* impl From<Direction> for usize: the bit of a direction in a ctable row.
direction_to_usize(d) ==
  CASE d = Up -> 0
    [] d = Right -> 1
    [] d = Down -> 2
    [] d = Left -> 3

---------------------------------------------------------------------------
(* pattern.rs *)

\* An exemplar image of the given rows; pixel (x, y) is rows[y + 1][x + 1].
Image(rows) ==
  [width |-> IF Len(rows) = 0 THEN 0 ELSE Len(rows[1]),
   height |-> Len(rows),
   rows |-> rows]

\* What an out-of-range read of the texture stands for (the read panics); no
\* colour is negative.
OutOfBounds == -1

\* texture[(x, y)]: ImageBuffer's Index panics unless x < width and y < height.
texel(texture, x, y) ==
  IF x < texture.width /\ y < texture.height
    THEN texture.rows[y + 1][x + 1]
    ELSE OutOfBounds

\* Pattern::from_pos: the pixels pushed, local cell (dx, dy) at index dx*size + dy.
from_pos(texture, size, pos) ==
  [k \in 1..(size * size) |->
     LET dx == (k - 1) \div size
         dy == (k - 1) % size
         x == (pos[1] + dx) % texture.height
         y == (pos[2] + dy) % texture.width
     IN texel(texture, x, y)]

\* Pattern::new
Pattern(id, size, texture, pos) ==
  [id |-> id, size |-> size, pixels |-> from_pos(texture, size, pos)]

\* impl Index<(usize, usize)> for Pattern
pattern_index(p, x, y) == p.pixels[x * p.size + y + 1]

\* A changed get_side: the Down strip starts at row 0, as the Up strip does.
get_side_down_from_zero(p, direction) ==
  LET n == p.size
  IN CASE direction \in {Up, Down} ->
            [k \in 1..((n - 1) * n) |-> pattern_index(p, (k - 1) \div n, (k - 1) % n)]
       [] direction = Right ->
            [k \in 1..(n * (n - 1)) |->
               pattern_index(p, (k - 1) \div (n - 1), 1 + ((k - 1) % (n - 1)))]
       [] direction = Left ->
            [k \in 1..(n * (n - 1)) |->
               pattern_index(p, (k - 1) \div (n - 1), (k - 1) % (n - 1))]

\* A changed get_side: the Right strip's inner loop starts at column 0, so the
\* strip is the whole pattern.
get_side_right_from_zero(p, direction) ==
  LET n == p.size
  IN CASE direction = Up ->
            [k \in 1..((n - 1) * n) |-> pattern_index(p, (k - 1) \div n, (k - 1) % n)]
       [] direction = Right ->
            [k \in 1..(n * n) |-> pattern_index(p, (k - 1) \div n, (k - 1) % n)]
       [] direction = Down ->
            [k \in 1..((n - 1) * n) |-> pattern_index(p, 1 + ((k - 1) \div n), (k - 1) % n)]
       [] direction = Left ->
            [k \in 1..(n * (n - 1)) |->
               pattern_index(p, (k - 1) \div (n - 1), (k - 1) % (n - 1))]

\* Pattern::get_side; size >= 1 (size - 1 underflows for size 0).
get_side(p, direction) ==
  LET n == p.size
  IN CASE direction = Up ->
            [k \in 1..((n - 1) * n) |-> pattern_index(p, (k - 1) \div n, (k - 1) % n)]
       [] direction = Right ->
            [k \in 1..(n * (n - 1)) |->
               pattern_index(p, (k - 1) \div (n - 1), 1 + ((k - 1) % (n - 1)))]
       [] direction = Down ->
            [k \in 1..((n - 1) * n) |-> pattern_index(p, 1 + ((k - 1) \div n), (k - 1) % n)]
       [] direction = Left ->
            [k \in 1..(n * (n - 1)) |->
               pattern_index(p, (k - 1) \div (n - 1), (k - 1) % (n - 1))]

\* A changed overlaps: the second pattern's side in the same direction.
overlaps_same_side(p1, p2, direction) ==
  get_side(p1, direction) = get_side(p2, direction)

\* Pattern::overlaps
overlaps(p1, p2, direction) ==
  get_side(p1, direction) = get_side(p2, opposite(direction))

\* A changed get_patterns: the id of a pattern is the number of its anchor.
RECURSIVE get_patterns_anchor_id(_, _, _)
get_patterns_anchor_id(image, size, n) ==
  IF n = 0 THEN {}
  ELSE LET patterns == get_patterns_anchor_id(image, size, n - 1)
           x == (n - 1) \div image.width
           y == (n - 1) % image.width
           pattern == Pattern(n - 1, size, image, <<x, y>>)
       IN IF \E q \in patterns : q.pixels = pattern.pixels
            THEN patterns
            ELSE patterns \cup {pattern}

\* get_patterns after the first n anchors of the loops x in 0..height, y in 0..width:
\* a pattern whose pixels the set already holds is not inserted (Eq and Hash are on
\* pixels only), and the id of a new one is the set's size.
RECURSIVE get_patterns_upto(_, _, _)
get_patterns_upto(image, size, n) ==
  IF n = 0 THEN {}
  ELSE LET patterns == get_patterns_upto(image, size, n - 1)
           x == (n - 1) \div image.width
           y == (n - 1) % image.width
           pattern == Pattern(Cardinality(patterns), size, image, <<x, y>>)
       IN IF \E q \in patterns : q.pixels = pattern.pixels
            THEN patterns
            ELSE patterns \cup {pattern}

\* get_patterns
get_patterns(image, size) ==
  get_patterns_upto(image, size, image.height * image.width)

---------------------------------------------------------------------------
(* wfc.rs: the constraints table *)

\* The row built_constraints computes for (p1, p2): bit From<Direction>(d) is
\* p1.overlaps(p2, d).
constraints_row(p1, p2) ==
  LET bit(d) == IF overlaps(p1, p2, d) THEN 2 ^ direction_to_usize(d) ELSE 0
  IN bit(Up) + bit(Right) + bit(Down) + bit(Left)

\* Wfc::build_constraints: one entry per ordered pair, keyed by the ids.
build_constraints(patterns) ==
  [key \in {<<p1.id, p2.id>> : p1 \in patterns, p2 \in patterns} |->
     LET p1 == CHOOSE p \in patterns : p.id = key[1]
         p2 == CHOOSE p \in patterns : p.id = key[2]
     IN constraints_row(p1, p2)]

\* (constraints >> direction & 1) != 0
allowed(constraints, direction) ==
  (constraints \div (2 ^ direction_to_usize(direction))) % 2 # 0

---------------------------------------------------------------------------
(* table.rs: a table is [collection, width]; element idx is collection[idx + 1] *)

\* Table::new
Table(collection, w) == [collection |-> collection, width |-> w]

\* Table::len
table_len(table) == Len(table.collection)

\* Table::height; the division panics for width 0.
table_height(table) == table_len(table) \div table.width

\* The linear index Index<(usize, usize)> and IndexMut<(usize, usize)> use.
pos_to_idx(table, pos) == pos[1] * table.width + pos[2]

\* Whether collection.index(idx) is inside the Vec; a read or write outside panics.
in_collection(table, idx) == idx >= 0 /\ idx < table_len(table)

\* impl Index<usize> for Table
table_at(table, idx) == table.collection[idx + 1]

\* impl Index<(usize, usize)> for Table
table_get(table, pos) == table_at(table, pos_to_idx(table, pos))

\* impl IndexMut<(usize, usize)> for Table: table[pos] = value
table_set(table, pos, value) ==
  [table EXCEPT !.collection[pos_to_idx(table, pos) + 1] = value]

\* Table::idx_to_pos
idx_to_pos(table, idx) ==
  <<idx \div table_height(table), idx % table.width>>

\* The bounds test of Table::get_neighbors: the position is skipped when it fails.
neighbor_in_bounds(table, npos) ==
  ~(npos[1] < 0 \/ npos[2] < 0
      \/ npos[1] >= table.width \/ npos[2] >= table_height(table))

\* Table::get_neighbors: the positions pushed, in the order of Direction::all.
get_neighbors(table, pos) ==
  LET Keep(d) == neighbor_in_bounds(table, add_pos(d, pos))
      kept == SelectSeq(all, Keep)
  IN [k \in 1..Len(kept) |-> add_pos(kept[k], pos)]

\* Table::get_neighbors reads &self[(dx, dy)] of every position it keeps: whether
\* all those reads are inside the collection.
neighbors_readable(table, pos) ==
  \A k \in 1..Len(get_neighbors(table, pos)) :
     in_collection(table, pos_to_idx(table, get_neighbors(table, pos)[k]))

---------------------------------------------------------------------------
(* The state of one call of generate *)

VARIABLES
  exemplar,      \* lib::generate: the image
  size,          \* lib::generate: cfg.pattern_size
  patterns,      \* Wfc.patterns, the list given to Wfc::new
  ctable,        \* Wfc.ctable
  width,         \* Wfc::generate: width
  height,        \* Wfc::generate: height
  etable,        \* WfcI.etable
  buffer,        \* WfcI.buffer: pixel (x, y) of the output image
  pc,            \* where generate is: observe, propagate, loop, revise, assert,
                 \* render, done (returned) or panic
  err,           \* the panic's message
  start_idx,     \* the index observe returned, propagate's start_idx
  stack,         \* propagate: stack
  stack_set,     \* propagate: stack_set
  current_idx,   \* propagate: current_idx
  neighbors,     \* propagate: the neighbours of current_idx still to revise
  next_pixel,    \* generate: the pixels the render loops have done
  run,           \* 0: a single call; 1, 2: the first and second of two calls
  draws,         \* the random draws of the first call, replayed by the second
  out1,          \* the image the first of two calls returned
  anchor,        \* get_patterns: the anchors its loops have done
  grid,          \* a Table<usize> that is called directly
  call,          \* the last call on grid: [op, arg, result, err]
  steps          \* how many times observe returned an index and how many indices
                 \* propagate pushed during this call, where that is counted

vars ==
  <<exemplar, size, patterns, ctable, width, height, etable, buffer, pc, err,
    start_idx, stack, stack_set, current_idx, neighbors, next_pixel, run, draws, out1,
    anchor, grid, call, steps>>

\* What a call of generate leaves alone: the loop of get_patterns, which has
\* returned, and the table that is called directly.
lib_vars == <<anchor, grid, call>>

\* The steps of a call are not counted.
NotCounted == [on |-> FALSE, observe |-> 0, push |-> 0]

\* One more step of the kind which (observe or push), where steps are counted.
count(which) ==
  IF steps.on THEN [steps EXCEPT ![which] = @ + 1] ELSE steps

\* No call has been made on grid.
NoCall == [op |-> "none", arg |-> <<>>, result |-> <<>>, err |-> "none"]

\* The exemplars tried: a single pixel, and 2x2 images: uniform, checkerboard,
\* one odd corner, vertical stripes.  The colours are 1 and 2; 0 is the colour
\* ImageBuffer::new fills the output with.
Exemplars ==
  { Image(<< <<1>> >>),
    Image(<< <<1, 1>>, <<1, 1>> >>),
    Image(<< <<1, 2>>, <<2, 1>> >>),
    Image(<< <<1, 1>>, <<1, 2>> >>),
    Image(<< <<1, 2>>, <<1, 2>> >>) }

\* Option::None of an index (observe's result before any call, or None).
NoIndex == -1
NoError == "none"
Contradiction == "Contradiction"
IndexOutOfBounds == "index out of bounds"
AssertionFailed == "assertion failed"
PixelOutOfBounds == "pixel out of bounds"

\* generate, lines 55-59: width * height copies of the pattern list.
new_etable(ps, w, h) == Table([k \in 1..(w * h) |-> ps], w)

\* image::ImageBuffer::new(width, height): every pixel zero.
new_buffer(w, h) == [pos \in (0..(w - 1)) \X (0..(h - 1)) |-> 0]

\* The state when generate(w, h) has built its solver, for the Wfc that
\* Wfc::new(ps) built.
InitWith(ex, k, ps, w, h, r) ==
  /\ exemplar = ex
  /\ size = k
  /\ patterns = ps
  /\ ctable = build_constraints(ps)
  /\ width = w
  /\ height = h
  /\ etable = new_etable(ps, w, h)
  /\ buffer = new_buffer(w, h)
  /\ pc = "observe"
  /\ err = NoError
  /\ start_idx = NoIndex
  /\ stack = <<>>
  /\ stack_set = {}
  /\ current_idx = NoIndex
  /\ neighbors = <<>>
  /\ next_pixel = 0
  /\ run = r
  /\ draws = <<>>
  /\ out1 = <<>>
  /\ anchor = ex.height * ex.width
  /\ grid = Table(<<>>, 0)
  /\ call = NoCall

\* The pattern lists: any selection of the patterns get_patterns extracts (all of
\* them is what lib::generate passes to Wfc::new).
Init ==
  \E ex \in Exemplars, k \in 1..MaxSize, w \in 0..MaxCells, h \in 0..MaxCells :
    /\ w * h <= MaxCells
    /\ \E ps \in SUBSET get_patterns(ex, k) : InitWith(ex, k, ps, w, h, 0)
    /\ steps = NotCounted

\* panic!: generate unwinds; nothing is returned.
Panic(message) ==
  /\ pc' = "panic"
  /\ err' = message
  /\ UNCHANGED <<steps, lib_vars, exemplar, size, patterns, ctable, width, height, etable, buffer,
                 start_idx, stack, stack_set, current_idx, neighbors, next_pixel,
                 run, draws, out1>>

---------------------------------------------------------------------------
(* WfcI::observe *)

\* The domain sizes above 1 (lines 114-118).
open_sizes(table) ==
  {Cardinality(table_at(table, idx)) : idx \in 0..(table_len(table) - 1)} \ {0, 1}

\* min (line 119), for a non-empty set of sizes.
min_size(table) ==
  CHOOSE m \in open_sizes(table) : \A n \in open_sizes(table) : m <= n

\* A changed least_entropy: only the first cell of least size, by position.
least_entropy_first(table) ==
  LET first == CHOOSE idx \in 0..(table_len(table) - 1) :
                 /\ Cardinality(table_at(table, idx)) = min_size(table)
                 /\ \A other \in 0..(idx - 1) :
                      Cardinality(table_at(table, other)) # min_size(table)
  IN <<first>>

\* least_entropy (lines 121-125): the indices whose domain has the least size,
\* in the order enumerate yields them.
least_entropy(table) ==
  LET IsLeast(idx) == Cardinality(table_at(table, idx)) = min_size(table)
  IN SelectSeq([k \in 1..table_len(table) |-> k - 1], IsLeast)

\* A changed collapse: the observed pattern is written to every cell that holds it.
collapse_all(table, idx, observed) ==
  [table EXCEPT !.collection =
     [k \in DOMAIN table.collection |->
        IF observed \in table.collection[k] THEN {observed} ELSE table.collection[k]]]

\* self.etable[idx] = vec![*observed] (line 131)
collapse(table, idx, observed) ==
  [table EXCEPT !.collection[idx + 1] = {observed}]

\* The draws are recorded by the first of two calls and replayed by the second.
use_draw(draw) ==
  /\ (run = 2 /\ draws # <<>>) => draw = Head(draws)
  /\ draws' = CASE run = 1 -> Append(draws, draw)
                [] run = 2 /\ draws # <<>> -> Tail(draws)
                [] OTHER -> draws

\* observe returns Some(idx): choose draws position r1 of least_entropy and
\* position r2 of the slot's Vec.  The Vec's order is the iteration order of the
\* HashSet it was collected from (the pattern set's, or remaining_set's), so any
\* pattern of the slot may be the one at position r2.
ObserveSome ==
  /\ pc = "observe"
  /\ open_sizes(etable) # {}
  /\ \E r1 \in 1..Len(least_entropy(etable)) :
       LET idx == least_entropy(etable)[r1]
           slot == table_at(etable, idx)
       IN \E r2 \in 1..Cardinality(slot), observed \in slot :
            /\ use_draw(<<r1, r2>>)
            /\ etable' = collapse(etable, idx, observed)
            /\ start_idx' = idx
  /\ pc' = "propagate"
  /\ steps' = count("observe")
  /\ UNCHANGED <<lib_vars, exemplar, size, patterns, ctable, width, height, buffer, err,
                 stack, stack_set, current_idx, neighbors, next_pixel, run, out1>>

\* observe returns None (the ? of line 119): the while loop of generate ends.
ObserveNone ==
  /\ pc = "observe"
  /\ open_sizes(etable) = {}
  /\ pc' = "assert"
  /\ start_idx' = NoIndex
  /\ UNCHANGED <<steps, lib_vars, exemplar, size, patterns, ctable, width, height, etable, buffer, err,
                 stack, stack_set, current_idx, neighbors, next_pixel, run, draws, out1>>

---------------------------------------------------------------------------
(* WfcI::propagate *)

\* Lines 136-146: the start index is pushed.
PropagateStart ==
  /\ pc = "propagate"
  /\ stack' = <<start_idx>>
  /\ stack_set' = {start_idx}
  /\ pc' = "loop"
  /\ steps' = count("push")
  /\ UNCHANGED <<lib_vars, exemplar, size, patterns, ctable, width, height, etable, buffer, err,
                 start_idx, current_idx, neighbors, next_pixel, run, draws, out1>>

\* A changed remaining_set: the neighbour keeps every pattern it holds, whether a
\* pattern of the cell at pos allows it or not.
remaining_set_unfiltered(ct, table, pos, npos) ==
  table_get(table, npos)

\* A changed remaining_set: every pattern of the list that the cell at pos allows,
\* whether the neighbour still holds it or not.
remaining_set_union(ct, table, pos, npos) ==
  LET direction == from_neighbors(pos, npos)
  IN {p \in patterns :
        \E possibility \in table_get(table, pos) :
           allowed(ct[<<possibility.id, p.id>>], direction)}

\* remaining_set (lines 155-175): the patterns of the neighbour at npos that some
\* pattern of the cell at pos allows in the direction from pos to npos.  The
\* HashSet holds one pattern per pixel content; the patterns of a list differ in
\* their pixels.
remaining_set(ct, table, pos, npos) ==
  LET direction == from_neighbors(pos, npos)
  IN {p \in table_get(table, npos) :
        \E possibility \in table_get(table, pos) :
           allowed(ct[<<possibility.id, p.id>>], direction)}

\* A changed test: an empty remaining_set goes unnoticed.
contradiction_ignored(remaining) == FALSE

\* remaining_set.is_empty() (line 179)
contradiction(remaining) == remaining = {}

\* A changed test: the neighbour's index is pushed after every revision.
pushed_always(table, npos, remaining) == TRUE

\* Lines 190-197: the neighbour's index is pushed when its number of
\* possibilities changed and it is not on the stack.
pushed(table, npos, remaining) ==
  Cardinality(table_get(table, npos)) # Cardinality(remaining)

\* A changed push: the index is pushed whether it is on the stack or not.
stack_after_push_always(st, on_stack, idx) == Append(st, idx)

\* Lines 194-196: stack.push(idx) happens only when stack_set.insert(idx) reports
\* that idx was not in the set.
stack_after_push(st, on_stack, idx) ==
  IF idx \notin on_stack THEN Append(st, idx) ELSE st

\* Lines 148-154: an index is popped and its neighbours are fetched;
\* get_neighbors reads each neighbour it keeps.
Pop ==
  /\ pc = "loop"
  /\ stack # <<>>
  /\ LET idx == stack[Len(stack)]
         pos == idx_to_pos(etable, idx)
     IN IF neighbors_readable(etable, pos)
          THEN /\ stack' = SubSeq(stack, 1, Len(stack) - 1)
               /\ stack_set' = stack_set \ {idx}
               /\ current_idx' = idx
               /\ neighbors' = get_neighbors(etable, pos)
               /\ pc' = IF get_neighbors(etable, pos) = <<>> THEN "loop" ELSE "revise"
               /\ UNCHANGED <<steps, lib_vars, exemplar, size, patterns, ctable, width, height, etable,
                              buffer, err, start_idx, next_pixel, run, draws, out1>>
          ELSE Panic(IndexOutOfBounds)

\* Lines 155-200 for the next neighbour of current_idx.
Revise ==
  /\ pc = "revise"
  /\ LET pos == idx_to_pos(etable, current_idx)
         npos == Head(neighbors)
     IN IF ~in_collection(etable, pos_to_idx(etable, pos))
          THEN Panic(IndexOutOfBounds)
          ELSE LET remaining == remaining_set(ctable, etable, pos, npos)
                   idx == pos_to_idx(etable, npos)
               IN IF contradiction(remaining)
                    THEN Panic(Contradiction)
                    ELSE /\ stack' = IF pushed(etable, npos, remaining)
                                       THEN stack_after_push(stack, stack_set, idx)
                                       ELSE stack
                         /\ stack_set' = IF pushed(etable, npos, remaining)
                                           THEN stack_set \cup {idx}
                                           ELSE stack_set
                         /\ steps' = IF pushed(etable, npos, remaining) /\ idx \notin stack_set
                                       THEN count("push")
                                       ELSE steps
                         /\ etable' = table_set(etable, npos, remaining)
                         /\ neighbors' = Tail(neighbors)
                         /\ pc' = IF Tail(neighbors) = <<>> THEN "loop" ELSE "revise"
                         /\ UNCHANGED <<lib_vars, exemplar, size, patterns, ctable, width, height,
                                        buffer, err, start_idx, current_idx, next_pixel,
                                        run, draws, out1>>

\* The stack is empty: propagate returns to the loop of generate.
PropagateReturn ==
  /\ pc = "loop"
  /\ stack = <<>>
  /\ pc' = "observe"
  /\ UNCHANGED <<steps, lib_vars, exemplar, size, patterns, ctable, width, height, etable, buffer, err,
                 start_idx, stack, stack_set, current_idx, neighbors, next_pixel,
                 run, draws, out1>>

---------------------------------------------------------------------------
(* Wfc::generate after the loop *)

\* etable.iter().all(|x| x.len() == 1)
all_collapsed(table) ==
  \A idx \in 0..(table_len(table) - 1) : Cardinality(table_at(table, idx)) = 1

\* Line 66
AssertCollapsed ==
  /\ pc = "assert"
  /\ IF all_collapsed(etable)
       THEN /\ pc' = "render"
            /\ UNCHANGED <<steps, lib_vars, exemplar, size, patterns, ctable, width, height, etable,
                           buffer, err, start_idx, stack, stack_set, current_idx,
                           neighbors, next_pixel, run, draws, out1>>
       ELSE Panic(AssertionFailed)

\* ImageBuffer::put_pixel(x, y, _) panics unless x < width and y < height.
pixel_in_bounds(w, h, x, y) == x < w /\ y < h

\* Lines 70-72: the colour written for loop indices (i, j).
render_color(table, w, i, j) ==
  LET idx == i * w + j
      pattern == CHOOSE p \in table_at(table, idx) : TRUE
  IN pattern.pixels[1]

\* Lines 68-75, one pass of the inner loop: pass k has i = k / width, j = k % width.
RenderPixel ==
  /\ pc = "render"
  /\ next_pixel < height * width
  /\ LET i == next_pixel \div width
         j == next_pixel % width
     IN IF pixel_in_bounds(width, height, i, j)
          THEN /\ buffer' = [buffer EXCEPT ![<<i, j>>] = render_color(etable, width, i, j)]
               /\ next_pixel' = next_pixel + 1
               /\ UNCHANGED <<steps, lib_vars, exemplar, size, patterns, ctable, width, height, etable,
                              pc, err, start_idx, stack, stack_set, current_idx,
                              neighbors, run, draws, out1>>
          ELSE Panic(PixelOutOfBounds)

\* Line 77: the buffer is returned.
Return ==
  /\ pc = "render"
  /\ next_pixel = height * width
  /\ pc' = "done"
  /\ UNCHANGED <<steps, lib_vars, exemplar, size, patterns, ctable, width, height, etable, buffer, err,
                 start_idx, stack, stack_set, current_idx, neighbors, next_pixel,
                 run, draws, out1>>

Next ==
  \/ ObserveSome
  \/ ObserveNone
  \/ PropagateStart
  \/ Pop
  \/ Revise
  \/ PropagateReturn
  \/ AssertCollapsed
  \/ RenderPixel
  \/ Return

Spec == Init /\ [][Next]_vars

---------------------------------------------------------------------------
(* Two calls of lib::generate with the same image and Config, the second with
   the random draws of the first *)

\* lib::generate, called with every pattern get_patterns extracts, as the first
\* of two calls. The output is square: render returns an image for no other
\* non-empty shape.
InitTwice ==
  \E ex \in Exemplars, k \in 1..MaxSize, w \in 1..MaxCells :
    /\ w * w <= MaxCells
    /\ InitWith(ex, k, get_patterns(ex, k), w, w, 1)
    /\ steps = NotCounted

\* The first call has returned its image; lib::generate is called again: the
\* patterns are extracted and the constraints built anew (the same set, the same
\* table), and generate starts from a fresh entropy table and buffer.
CallAgain ==
  /\ pc = "done"
  /\ run = 1
  /\ run' = 2
  /\ out1' = buffer
  /\ patterns' = get_patterns(exemplar, size)
  /\ ctable' = build_constraints(get_patterns(exemplar, size))
  /\ etable' = new_etable(get_patterns(exemplar, size), width, height)
  /\ buffer' = new_buffer(width, height)
  /\ pc' = "observe"
  /\ start_idx' = NoIndex
  /\ stack' = <<>>
  /\ stack_set' = {}
  /\ current_idx' = NoIndex
  /\ neighbors' = <<>>
  /\ next_pixel' = 0
  /\ UNCHANGED <<steps, lib_vars, exemplar, size, width, height, err, draws>>

NextTwice == Next \/ CallAgain

SpecTwice == InitTwice /\ [][NextTwice]_vars

---------------------------------------------------------------------------
(* lib::generate up to Wfc::new: get_patterns anchor by anchor, then the
   constraints table *)

\* The variables of a call of Wfc::generate, which these steps come before.
solver_vars ==
  <<width, height, etable, buffer, start_idx, stack, stack_set, current_idx,
    neighbors, next_pixel, run, draws, out1, steps>>

\* Wfc::generate has not been called.
NoSolver ==
  /\ width = 0
  /\ height = 0
  /\ etable = Table(<<>>, 0)
  /\ buffer = <<>>
  /\ start_idx = NoIndex
  /\ stack = <<>>
  /\ stack_set = {}
  /\ current_idx = NoIndex
  /\ neighbors = <<>>
  /\ next_pixel = 0
  /\ run = 0
  /\ draws = <<>>
  /\ out1 = <<>>
  /\ steps = NotCounted

\* The colours of the exemplars.
Colors == {1, 2}

\* The exemplars get_patterns is run on: every image of these colours with at
\* most MaxPixels pixels, square or not.
Textures ==
  LET dims == {d \in (1..MaxPixels) \X (1..MaxPixels) : d[1] * d[2] <= MaxPixels}
  IN {Image(rows) : rows \in UNION {[1..d[2] -> [1..d[1] -> Colors]] : d \in dims}}

\* The panic of ImageBuffer's Index for a position outside the image.
ImageIndexOutOfBounds == "image index out of bounds"

\* Whether every read of from_pos was inside the texture.
extracted(pattern) ==
  \A k \in DOMAIN pattern.pixels : pattern.pixels[k] # OutOfBounds

\* The anchor of pass n of the loops of get_patterns (x outer over height, y
\* inner over width).
anchor_pos(image, n) == <<n \div image.width, n % image.width>>

\* lib::generate is called: get_patterns starts with an empty set.
InitPatterns ==
  \E texture \in Textures, k \in 1..MaxSize :
    /\ exemplar = texture
    /\ size = k
    /\ patterns = {}
    /\ ctable = << >>
    /\ anchor = 0
    /\ pc = "get_patterns"
    /\ err = NoError
    /\ grid = Table(<<>>, 0)
    /\ call = NoCall
    /\ NoSolver

\* One pass of the loops of get_patterns: Pattern::new reads the texture and panics
\* on a read outside it; otherwise the pattern is inserted.
InsertPattern ==
  /\ pc = "get_patterns"
  /\ anchor < exemplar.height * exemplar.width
  /\ LET pattern == Pattern(Cardinality(patterns), size, exemplar,
                            anchor_pos(exemplar, anchor))
     IN IF extracted(pattern)
          THEN /\ patterns' = get_patterns_upto(exemplar, size, anchor + 1)
               /\ anchor' = anchor + 1
               /\ UNCHANGED <<exemplar, size, ctable, pc, err, grid, call, solver_vars>>
          ELSE Panic(ImageIndexOutOfBounds)

\* get_patterns returns its set.
PatternsReturn ==
  /\ pc = "get_patterns"
  /\ anchor = exemplar.height * exemplar.width
  /\ pc' = "new"
  /\ UNCHANGED <<exemplar, size, patterns, ctable, err, lib_vars, solver_vars>>

\* Wfc::new(list) for a list of the extracted patterns (lib::generate passes all
\* of them): the constraints table is built.
NewWfc ==
  /\ pc = "new"
  /\ \E ps \in SUBSET patterns :
       /\ patterns' = ps
       /\ ctable' = build_constraints(ps)
  /\ pc' = "built"
  /\ UNCHANGED <<exemplar, size, err, lib_vars, solver_vars>>

NextPatterns ==
  \/ InsertPattern
  \/ PatternsReturn
  \/ NewWfc

SpecPatterns == InitPatterns /\ [][NextPatterns]_vars

---------------------------------------------------------------------------
(* Table<usize>, called directly as the tests of table.rs call it *)

\* Table::get_neighbors as table.rs returns it: for every direction it keeps, in
\* the order of Direction::all, the element it read and the direction.
neighbors_with_direction(table, pos) ==
  LET Keep(d) == neighbor_in_bounds(table, add_pos(d, pos))
      kept == SelectSeq(all, Keep)
  IN [k \in 1..Len(kept) |-> <<table_get(table, add_pos(kept[k], pos)), kept[k]>>]

\* The positions the table is called with: both coordinates below the width and
\* the height, in either order.
call_positions(table) ==
  ((0..(table.width - 1)) \X (0..(table_height(table) - 1)))
    \cup ((0..(table_height(table) - 1)) \X (0..(table.width - 1)))

\* Table::new((0..w*h).collect_vec(), w): element idx is the number idx.
InitTable ==
  \E w \in 1..MaxLen, h \in 1..MaxLen :
    /\ w * h <= MaxLen
    /\ grid = Table([k \in 1..(w * h) |-> k - 1], w)
    /\ call = NoCall
    /\ pc = "table"
    /\ err = NoError
    /\ exemplar = Image(<< >>)
    /\ size = 1
    /\ patterns = {}
    /\ ctable = << >>
    /\ anchor = 0
    /\ NoSolver

\* grid.idx_to_pos(idx)
CallIdxToPos ==
  /\ pc = "table"
  /\ \E idx \in 0..(table_len(grid) - 1) :
       call' = [op |-> "idx_to_pos", arg |-> idx, result |-> idx_to_pos(grid, idx),
                err |-> NoError]
  /\ UNCHANGED <<exemplar, size, patterns, ctable, pc, err, anchor, grid, solver_vars>>

\* grid[(x, y)]: the Vec's index panics outside the collection.
CallIndex ==
  /\ pc = "table"
  /\ \E pos \in call_positions(grid) :
       call' = IF in_collection(grid, pos_to_idx(grid, pos))
                 THEN [op |-> "index", arg |-> pos, result |-> table_get(grid, pos),
                       err |-> NoError]
                 ELSE [op |-> "index", arg |-> pos, result |-> << >>,
                       err |-> IndexOutOfBounds]
  /\ UNCHANGED <<exemplar, size, patterns, ctable, pc, err, anchor, grid, solver_vars>>

\* grid.get_neighbors((x, y)): a read of a kept neighbour outside the collection
\* panics.
CallGetNeighbors ==
  /\ pc = "table"
  /\ \E pos \in call_positions(grid) :
       call' = IF neighbors_readable(grid, pos)
                 THEN [op |-> "get_neighbors", arg |-> pos,
                       result |-> neighbors_with_direction(grid, pos), err |-> NoError]
                 ELSE [op |-> "get_neighbors", arg |-> pos, result |-> << >>,
                       err |-> IndexOutOfBounds]
  /\ UNCHANGED <<exemplar, size, patterns, ctable, pc, err, anchor, grid, solver_vars>>

NextTable ==
  \/ CallIdxToPos
  \/ CallIndex
  \/ CallGetNeighbors

SpecTable == InitTable /\ [][NextTable]_vars

---------------------------------------------------------------------------
(* Properties *)

Cells == 0..(table_len(etable) - 1)

Domain(idx) == table_at(etable, idx)

\* The positions of the grid: (x, y) is element x * width + y.
Positions == (0..(height - 1)) \X (0..(width - 1))

\* C1: whenever generate returns, every two orthogonally adjacent cells u and
\* v, v in direction d from u, hold patterns the constraints table allows: bit d
\* of ctable[(pattern(u).id, pattern(v).id)] is 1.
C1_SolutionSound ==
  pc = "done" =>
    \A u \in Positions, d \in {Up, Right, Down, Left} :
       LET v == add_pos(d, u)
       IN v \in Positions =>
            \A p \in table_get(etable, u), q \in table_get(etable, v) :
               allowed(ctable[<<p.id, q.id>>], d)

\* C3: when the observe loop has ended, every cell of the entropy table holds
\* exactly one pattern: the assertion of generate never fails.
C3_AssertionHolds ==
  /\ err # AssertionFailed
  /\ pc = "assert" => all_collapsed(etable)

\* C4: no step of generate adds a pattern to a cell's domain or makes a domain
\* larger: every domain after a step is a subset of the domain before it.
C4_MonotoneDomains ==
  [][/\ DOMAIN etable'.collection = DOMAIN etable.collection
     /\ \A k \in DOMAIN etable.collection :
          /\ etable'.collection[k] \subseteq etable.collection[k]
          /\ Cardinality(etable'.collection[k]) <= Cardinality(etable.collection[k])]_vars

\* A cell that propagate has shrunk to fewer patterns, though to more than one.
C4_SomeDomainShrunk ==
  \E idx \in Cells :
     /\ idx # start_idx
     /\ Cardinality(Domain(idx)) > 1
     /\ Cardinality(Domain(idx)) < Cardinality(patterns)

\* C5: when the remaining set computed for a neighbour is empty, generate aborts
\* at once with Contradiction: nothing is written, pushed or popped in that step,
\* no step follows it, and no image is returned.
C5_ContradictionAborts ==
  [][/\ ( /\ pc = "revise"
          /\ in_collection(etable, pos_to_idx(etable, idx_to_pos(etable, current_idx)))
          /\ remaining_set(ctable, etable, idx_to_pos(etable, current_idx),
                           Head(neighbors)) = {} )
          => /\ pc' = "panic"
             /\ err' = Contradiction
             /\ etable' = etable
             /\ stack' = stack
             /\ buffer' = buffer
     /\ err = Contradiction => UNCHANGED vars
     /\ err' = Contradiction => pc' = "panic"]_vars

\* generate has aborted with Contradiction.
C5_Contradicted == pc = "panic" /\ err = Contradiction

\* Every pixel of the image has the colour c.
uniform(image, c) ==
  \A y \in 1..image.height : \A x \in 1..image.width : image.rows[y][x] = c

\* C6: for a uniform exemplar of colour c and K = 2, get_patterns yields one
\* pattern, every constraints-table entry has all four direction bits set, and
\* for every output size W, H >= 1 generate returns (no write falls outside the
\* buffer) an image whose every pixel is c.
C6_UniformExemplar ==
  ( /\ uniform(exemplar, 1)
    /\ size = 2
    /\ patterns = get_patterns(exemplar, size)
    /\ width >= 1
    /\ height >= 1 )
    => /\ Cardinality(patterns) = 1
       /\ \A key \in DOMAIN ctable : ctable[key] = 15
       /\ pc # "panic"
       /\ pc = "done" => \A pos \in DOMAIN buffer : buffer[pos] = 1

\* The inputs the specification calls invalid: an output size of 0, or a kernel
\* size below 1 or above a dimension of the exemplar.
invalid_input ==
  \/ width = 0
  \/ height = 0
  \/ size < 1
  \/ size > exemplar.width
  \/ size > exemplar.height

\* C8: a call of lib::generate with invalid input (W = 0, H = 0, K < 1 or K
\* larger than a dimension of the exemplar) is rejected: it never returns an
\* image.
C8_InvalidInputRejected ==
  (invalid_input /\ patterns = get_patterns(exemplar, size)) => pc # "done"

\* The cells whose domain has more than one pattern.
open_cells == {idx \in Cells : Cardinality(Domain(idx)) > 1}

\* The least domain size above 1, for open_cells non-empty.
least_open_size ==
  CHOOSE m \in {Cardinality(Domain(idx)) : idx \in open_cells} :
    \A idx \in open_cells : m <= Cardinality(Domain(idx))

\* What an observe step does, C9: None exactly when no cell is open; otherwise
\* the index of a cell of least open size, whose domain becomes one of its
\* patterns.
C9_step ==
  pc = "observe" =>
    IF open_cells = {}
      THEN start_idx' = NoIndex /\ pc' = "assert"
      ELSE /\ pc' = "propagate"
           /\ start_idx' \in open_cells
           /\ Cardinality(Domain(start_idx')) = least_open_size
           /\ \E p \in Domain(start_idx') : table_at(etable', start_idx') = {p}

\* Every cell of least open size and every pattern of its domain can be what
\* observe picks.
C9_every_outcome ==
  (pc = "observe" /\ open_cells # {}) =>
    \A idx \in open_cells :
       Cardinality(Domain(idx)) = least_open_size =>
         \A p \in Domain(idx) :
            ENABLED (ObserveSome /\ start_idx' = idx /\ table_at(etable', idx) = {p})

\* C9: observe returns None exactly when no cell has a domain of more than one
\* pattern; otherwise it returns the index of a cell of the least domain size
\* above 1 and sets its domain to one of the patterns it held; every such cell
\* and every pattern of it is a possible outcome.
C9_ObserveCollapsesLeast ==
  [][C9_step]_vars /\ []C9_every_outcome

\* observe has picked a cell that is not the first of least size by position.
C9_PickedLaterCell ==
  /\ pc = "propagate"
  /\ start_idx > 0
  /\ Cardinality(patterns) > 1
  /\ Cardinality(Domain(start_idx)) = 1
  /\ \A idx \in Cells : idx # start_idx => Domain(idx) = patterns

\* C10: observe changes only the domain of the cell whose index it returns; the
\* other domains, the table's shape, the constraints table and the pattern list
\* stay, and nothing changes when it returns None.
C10_ObserveFrame ==
  [][pc = "observe" =>
       /\ DOMAIN etable'.collection = DOMAIN etable.collection
       /\ etable'.width = etable.width
       /\ \A idx \in Cells : idx # start_idx' => table_at(etable', idx) = Domain(idx)
       /\ ctable' = ctable
       /\ patterns' = patterns
       /\ buffer' = buffer
       /\ start_idx' = NoIndex => etable' = etable]_vars

\* observe has collapsed one cell while another cell is still open.
C10_OtherCellsOpen ==
  /\ pc = "propagate"
  /\ Cardinality(Domain(start_idx)) = 1
  /\ \E idx \in Cells : idx # start_idx /\ Cardinality(Domain(idx)) > 1
  /\ \E idx \in Cells : idx # start_idx /\ Cardinality(Domain(idx)) = 1

\* C2: for a non-empty pattern list and W, H >= 1 generate stops in one of two
\* ways: it returns an image, or it aborts with Contradiction.
C2_ReturnsOrContradiction ==
  (patterns # {} /\ width >= 1 /\ height >= 1 /\ ~ENABLED Next)
    => (pc = "done" \/ (pc = "panic" /\ err = Contradiction))

\* C7: two calls of lib::generate with the same exemplar, K, W and H and the same
\* random draws return the same image.
C7_SameDrawsSameImage ==
  (run = 2 /\ pc = "done") => buffer = out1

---------------------------------------------------------------------------
(* Properties of pattern extraction and of the constraints table *)

Directions == {Up, Right, Down, Left}

\* C(a, b, d): the bit propagate reads in the entry of (a, b).
C(a, b, d) == allowed(ctable[<<a.id, b.id>>], d)

\* C11: for all patterns a, b of the list given to build_constraints and every
\* direction d, C(a, b, d) = C(b, a, opposite(d)).
C11_ConstraintSymmetry ==
  pc = "built" =>
    \A a \in patterns, b \in patterns, d \in Directions :
       C(a, b, d) = C(b, a, opposite(d))

\* A table with a pair that is allowed in one direction and not in the opposite one.
C11_OneWayPair ==
  /\ pc = "built"
  /\ \E a \in patterns, b \in patterns, d \in Directions :
       a # b /\ C(a, b, d) /\ ~C(a, b, opposite(d))

\* C12 as stated: every pattern extracted from an exemplar is compatible with
\* itself in every direction.
C12_ReflexiveAdjacency ==
  pc = "built" => \A a \in patterns, d \in Directions : C(a, a, d)

\* Whether the pattern is unchanged by a shift of one cell along the axis of the
\* direction: all its rows (dx) are equal for Up and Down, all its columns (dy)
\* for Right and Left.
shift_invariant(a, d) ==
  IF d \in {Up, Down}
    THEN \A x \in 0..(a.size - 2), y \in 0..(a.size - 1) :
            pattern_index(a, x, y) = pattern_index(a, x + 1, y)
    ELSE \A x \in 0..(a.size - 1), y \in 0..(a.size - 2) :
            pattern_index(a, x, y) = pattern_index(a, x, y + 1)

\* C12 amended: C(a, a, d) = 1 exactly when a is unchanged by a one-cell shift
\* along the axis of d; so it holds in every direction for the patterns of one
\* colour and for K = 1, and not for the others.
C12_SelfAdjacencyOfShiftInvariant ==
  pc = "built" =>
    \A a \in patterns, d \in Directions : C(a, a, d) = shift_invariant(a, d)

\* A table with a pattern compatible with itself along one axis only.
C12_StripedPattern ==
  /\ pc = "built"
  /\ \E a \in patterns : C(a, a, Up) /\ ~C(a, a, Right)

\* C13: the table has an entry for every ordered pair of the patterns, keyed by
\* the ids; bit 0 of it is a.overlaps(b, Up), bit 1 Right, bit 2 Down, bit 3
\* Left, the bits 4..7 are 0, and the bit propagate reads for d is that bit.
C13_TotalTable ==
  pc = "built" =>
    /\ DOMAIN ctable = {<<a.id, b.id>> : a \in patterns, b \in patterns}
    /\ \A a \in patterns, b \in patterns :
         LET row == ctable[<<a.id, b.id>>]
         IN /\ row \in 0..15
            /\ (row % 2 = 1) = overlaps(a, b, Up)
            /\ ((row \div 2) % 2 = 1) = overlaps(a, b, Right)
            /\ ((row \div 4) % 2 = 1) = overlaps(a, b, Down)
            /\ ((row \div 8) % 2 = 1) = overlaps(a, b, Left)
            /\ \A d \in Directions : C(a, b, d) = overlaps(a, b, d)

\* A table of several patterns with an entry that allows Up and Down only.
C13_MixedRow ==
  /\ pc = "built"
  /\ Cardinality(patterns) > 1
  /\ \E key \in DOMAIN ctable : ctable[key] = 5

\* The position taken modulo the dimensions of the exemplar.
wrapped(image, pos) == <<pos[1] % image.height, pos[2] % image.width>>

\* C14: for every exemplar, K, anchor and direction d, the pattern a extracted at
\* the anchor and the pattern b extracted at add_pos(anchor, d), wrapped, satisfy
\* a.overlaps(b, d) (both are extracted: no read of Pattern::new panics), and b
\* is a pattern of the extracted set.
C14_AdjacentAnchorsOverlap ==
  /\ pc # "panic"
  /\ pc = "new" =>
       \A n \in 0..(exemplar.height * exemplar.width - 1), d \in Directions :
          LET pos == anchor_pos(exemplar, n)
              a == Pattern(0, size, exemplar, pos)
              b == Pattern(0, size, exemplar, wrapped(exemplar, add_pos(d, pos)))
          IN /\ overlaps(a, b, d)
             /\ \E q \in patterns : q.pixels = b.pixels

\* C15: get_patterns holds one pattern per distinct pixel content of the anchors
\* done so far (two anchors of the same content give one element), and after
\* every insertion the ids are pairwise distinct and are exactly 0..P-1.
C15_DedupDenseIds ==
  pc # "built" =>
    /\ \A p \in patterns, q \in patterns :
         p # q => (p.id # q.id /\ p.pixels # q.pixels)
    /\ {p.id : p \in patterns} = 0..(Cardinality(patterns) - 1)
    /\ {p.pixels : p \in patterns}
         = {from_pos(exemplar, size, anchor_pos(exemplar, n)) : n \in 0..(anchor - 1)}

\* get_patterns has returned several patterns, fewer than the anchors.
C15_SharedContent ==
  /\ pc = "new"
  /\ Cardinality(patterns) > 1
  /\ Cardinality(patterns) < anchor

\* C16: for an exemplar of any width and height and any K, every read of
\* get_patterns addresses a pixel of the exemplar; the set it returns holds, for
\* every anchor (x0, y0), a pattern whose pixel dx*K + dy is the exemplar's at
\* ((x0 + dx) mod IH, (y0 + dy) mod IW), and every pixel of the exemplar is the
\* (0, 0) sample of some anchor.
C16_ExtractionOnAnyExemplar ==
  /\ pc # "panic"
  /\ pc = "new" =>
       /\ \A n \in 0..(exemplar.height * exemplar.width - 1) :
            LET pos == anchor_pos(exemplar, n)
            IN \E p \in patterns :
                 \A dx \in 0..(size - 1), dy \in 0..(size - 1) :
                    p.pixels[dx * size + dy + 1]
                      = texel(exemplar, (pos[1] + dx) % exemplar.height,
                                        (pos[2] + dy) % exemplar.width)
       /\ \A x \in 0..(exemplar.width - 1), y \in 0..(exemplar.height - 1) :
            \E n \in 0..(exemplar.height * exemplar.width - 1) :
               anchor_pos(exemplar, n) = <<x, y>>

\* C17: for K = 1 get_side is the empty strip in every direction, every pair of
\* patterns overlaps in every direction and every entry of the table is 15.
C17_SizeOne ==
  (pc = "built" /\ size = 1) =>
    \A a \in patterns, b \in patterns, d \in Directions :
       /\ get_side(a, d) = << >>
       /\ overlaps(a, b, d)
       /\ ctable[<<a.id, b.id>>] = 15

\* A table built for two patterns of size 1.
C17_TwoPixels ==
  /\ pc = "built"
  /\ size = 1
  /\ Cardinality(patterns) = 2

---------------------------------------------------------------------------
(* Properties of the table *)

\* C18: in a table of width W the cell (x, y) is the element at linear index
\* x + y*W; the neighbour get_neighbors reports as Right of (x, y) is the element
\* at x + (y+1)*W and the one reported as Down the element at (x+1) + y*W (in the
\* 3x3 table of 0..9, Right of (0, 0) is 3 and Down of (0, 0) is 1).
C18_LinearIndex ==
  /\ (/\ call.op = "index"
      /\ call.err = NoError
      /\ call.arg[1] < grid.width
      /\ call.arg[2] < table_height(grid))
       => call.result = call.arg[1] + call.arg[2] * grid.width
  /\ (call.op = "get_neighbors" /\ call.err = NoError)
       => \A k \in 1..Len(call.result) :
             LET element == call.result[k][1]
                 d == call.result[k][2]
             IN /\ d = Right => element = call.arg[1] + (call.arg[2] + 1) * grid.width
                /\ d = Down => element = (call.arg[1] + 1) + call.arg[2] * grid.width

\* The positions of the cells of the table, in the layout of its Index: (x, y) is
\* element x * width + y, with y below the width.
inside(table, pos) ==
  /\ pos[1] \in 0..(table_height(table) - 1)
  /\ pos[2] \in 0..(table.width - 1)

\* C19: for every width and height the mapping between positions and linear
\* indices is a bijection: the table at idx_to_pos(idx) is element idx, and
\* idx_to_pos of the linear index of a position of the table is that position.
C19_IndexBijection ==
  /\ call.op = "idx_to_pos"
       => /\ in_collection(grid, pos_to_idx(grid, call.result))
          /\ table_get(grid, call.result) = table_at(grid, call.arg)
  /\ (call.op = "index" /\ inside(grid, call.arg))
       => /\ call.err = NoError
          /\ idx_to_pos(grid, pos_to_idx(grid, call.arg)) = call.arg

\* C20: for every width and height and every position of the table, get_neighbors
\* reads no element outside the collection and yields exactly the cells
\* add_pos(pos, d) inside the grid, each once and tagged with its d.
C20_NeighborsInGrid ==
  (call.op = "get_neighbors" /\ inside(grid, call.arg))
    => /\ call.err = NoError
       /\ LET near == {d \in Directions : inside(grid, add_pos(d, call.arg))}
          IN /\ Len(call.result) = Cardinality(near)
             /\ {call.result[k] : k \in 1..Len(call.result)}
                  = {<<table_get(grid, add_pos(d, call.arg)), d>> : d \in near}

---------------------------------------------------------------------------
(* Wfc::generate on pattern lists built by hand, with its steps counted *)

\* A 4x4 texture whose pixel (x, y) has colour y + 1.
ChainTexture ==
  Image(<< <<1, 1, 1, 1>>, <<2, 2, 2, 2>>, <<3, 3, 3, 3>>, <<4, 4, 4, 4>> >>)

\* Three patterns of size 2 of ChainTexture, as p(id, 2, &texture, pos) builds
\* them: the columns are 1|2, 2|3 and 3|4.
PatternA == Pattern(0, 2, ChainTexture, <<0, 0>>)
PatternB == Pattern(1, 2, ChainTexture, <<0, 1>>)
PatternC == Pattern(2, 2, ChainTexture, <<0, 2>>)

\* A 4x4 texture with one odd pixel.
StackTexture ==
  Image(<< <<1, 1, 1, 1>>, <<1, 1, 1, 1>>, <<2, 2, 3, 2>>, <<2, 2, 2, 2>> >>)

\* The pattern lists given to Wfc::new: the three patterns of ChainTexture, four
\* patterns of StackTexture, and for every exemplar the patterns get_patterns
\* extracts.
PatternLists ==
  { [exemplar |-> ChainTexture, size |-> 2,
     patterns |-> {PatternA, PatternB, PatternC}],
    [exemplar |-> StackTexture, size |-> 2,
     patterns |-> { Pattern(0, 2, StackTexture, <<0, 0>>),
                    Pattern(1, 2, StackTexture, <<0, 1>>),
                    Pattern(2, 2, StackTexture, <<1, 1>>),
                    Pattern(3, 2, StackTexture, <<0, 2>>) }] }
  \cup { [exemplar |-> ex, size |-> k, patterns |-> get_patterns(ex, k)] :
            ex \in Exemplars, k \in 1..MaxSize }

\* generate(w, h) is called on the Wfc of one of the lists; its steps are counted
\* from zero.
InitCounted ==
  \E list \in PatternLists, w \in 0..MaxCells, h \in 0..MaxCells :
    /\ w * h <= MaxCells
    /\ InitWith(list.exemplar, list.size, list.patterns, w, h, 0)
    /\ steps = [on |-> TRUE, observe |-> 0, push |-> 0]

SpecCounted == InitCounted /\ [][Next]_vars

---------------------------------------------------------------------------
(* Properties of propagate and of rendering *)

\* C21: a revision of the neighbour n from the source cell i, n in direction d
\* from i, replaces D(n) by exactly the patterns q of D(n) that some p of D(i)
\* allows in direction d: nothing unsupported stays, nothing supported goes,
\* nothing is added.
C21_ReviseExact ==
  [][(pc = "revise" /\ pc' # "panic") =>
       LET pos == idx_to_pos(etable, current_idx)
           npos == Head(neighbors)
           d == CHOOSE dir \in Directions : add_pos(dir, pos) = npos
           i == pos_to_idx(etable, pos)
           n == pos_to_idx(etable, npos)
       IN /\ table_at(etable', n)
               = {q \in table_at(etable, n) : \E p \in table_at(etable, i) : C(p, q, d)}
          /\ \A idx \in Cells : idx # n => table_at(etable', idx) = Domain(idx)]_vars

\* A revision is due whose neighbour holds both patterns the source allows and
\* patterns it does not.
C21_PartlySupported ==
  /\ pc = "revise"
  /\ LET pos == idx_to_pos(etable, current_idx)
         npos == Head(neighbors)
         d == CHOOSE dir \in Directions : add_pos(dir, pos) = npos
     IN /\ in_collection(etable, pos_to_idx(etable, pos))
        /\ \E q \in table_get(etable, npos) : \E p \in table_get(etable, pos) : C(p, q, d)
        /\ \E q \in table_get(etable, npos) : \A p \in table_get(etable, pos) : ~C(p, q, d)

\* Every pattern of every cell has, in each neighbouring cell of the grid, a
\* pattern that allows it.
arc_consistent(table) ==
  \A i \in Positions, d \in Directions :
     LET n == add_pos(d, i)
     IN n \in Positions =>
          \A q \in table_get(table, n) : \E p \in table_get(table, i) : C(p, q, d)

\* C22: for every grid size, when the table generate starts from is
\* arc-consistent, the table is arc-consistent again whenever propagate has
\* returned (so before every observe).
C22_FixedPoint ==
  ( /\ width >= 1
    /\ height >= 1
    /\ arc_consistent(new_etable(patterns, width, height))
    /\ pc = "observe" )
    => arc_consistent(etable)

\* C23: for every grid size, a revision that shrinks the neighbour n leaves the
\* index of n on the stack, a valid cell index; a revision that changes nothing
\* pushes nothing; and an index that is popped is mapped by idx_to_pos to the
\* position of its own cell.
C23_Requeue ==
  [][/\ (pc = "revise" /\ pc' # "panic") =>
          LET n == pos_to_idx(etable, Head(neighbors))
          IN IF table_at(etable', n) # table_at(etable, n)
               THEN /\ \E k \in 1..Len(stack') : stack'[k] = n
                    /\ n < width * height
               ELSE stack' = stack
     /\ (pc = "loop" /\ stack # << >> /\ pc' # "panic") =>
          pos_to_idx(etable, idx_to_pos(etable, current_idx')) = current_idx']_vars

\* C25: after a successful solve, for every output size the image returned is
\* W x H, every write is inside the buffer, and pixel (x, y) is pixels[0] of the
\* sole pattern of the cell at (x, y) of the entropy table.
C25_Rendering ==
  (patterns # {} /\ width >= 1 /\ height >= 1)
    => /\ err # PixelOutOfBounds
       /\ pc = "done" =>
            /\ DOMAIN buffer = (0..(width - 1)) \X (0..(height - 1))
            /\ \A pos \in DOMAIN buffer :
                 \A p \in table_get(etable, pos) : buffer[pos] = p.pixels[1]

\* C28: in every state of generate every cell of the entropy table holds at least
\* one pattern, and only patterns of the list.
C28_NoEmptyDomain ==
  \A idx \in Cells : Domain(idx) # {} /\ Domain(idx) \subseteq patterns


\* C24: at every point of propagate the stack holds no index twice, stack_set is
\* exactly the set of the indices on the stack, and the stack is never longer
\* than the number of cells.
C24_DuplicateSuppression ==
  /\ \A j, k \in 1..Len(stack) : stack[j] = stack[k] => j = k
  /\ stack_set = {stack[k] : k \in 1..Len(stack)}
  /\ Len(stack) <= width * height

\* A revision changes a neighbour whose index is on the stack already.
C24_AlreadyOnStack ==
  /\ pc = "revise"
  /\ pos_to_idx(etable, Head(neighbors)) \in stack_set
  /\ in_collection(etable, pos_to_idx(etable, idx_to_pos(etable, current_idx)))
  /\ LET remaining == remaining_set(ctable, etable, idx_to_pos(etable, current_idx),
                                    Head(neighbors))
     IN pushed(etable, Head(neighbors), remaining) /\ ~contradiction(remaining)

\* C26: an observe call that returns an index strictly decreases the number of
\* cells with more than one pattern and no step of propagate increases it; one
\* call of generate makes at most W*H such observe calls and pushes at most
\* W*H*P indices in all, P the number of patterns.
C26_ProgressBound ==
  /\ [](steps.on => /\ steps.observe <= width * height
                    /\ steps.push <= width * height * Cardinality(patterns))
  /\ [][/\ (pc = "observe" /\ pc' = "propagate") =>
              Cardinality({idx \in Cells : Cardinality(table_at(etable', idx)) > 1})
                < Cardinality(open_cells)
         /\ Cardinality({idx \in Cells : Cardinality(table_at(etable', idx)) > 1})
              <= Cardinality(open_cells)]_vars

\* A call has returned its image after observe returned an index more than once
\* and more indices were pushed than observe returned.
C26_SeveralSteps ==
  /\ pc = "done"
  /\ steps.observe >= 2
  /\ steps.push > steps.observe

\* C27: on a grid of one row and three columns with the patterns A, B, C (only
\* A-Right-B and B-Right-C allowed horizontally) and full domains, once the
\* leftmost cell is set to {A}, propagate on it returns normally with the middle
\* cell {B} and the rightmost cell {C}.
C27_ChainPropagation ==
  ( /\ patterns = {PatternA, PatternB, PatternC}
    /\ width = 3
    /\ height = 1
    /\ steps.observe = 1
    /\ start_idx = 0
    /\ table_at(etable, 0) = {PatternA} )
  => /\ pc # "panic"
     /\ pc = "observe" => /\ table_at(etable, 1) = {PatternB}
                          /\ table_at(etable, 2) = {PatternC}

====
